---- MODULE Spec2Model ----
(***************************************************************************)
(* A model of formulaic: the attribute interception and change tracking of *)
(* Model (models.py), the formatting and validation of Attribute           *)
(* (attributes.py, formatters.py, validators.py), Trigger (triggers.py)    *)
(* and the persistors (persistors.py).                                     *)
(*                                                                         *)
(* The Model type checked here is                                          *)
(*                                                                         *)
(*   class Entity(Model):                                                  *)
(*       id = IntegerAttribute()                                           *)
(*       name = StringAttribute(required=True)                             *)
(*       tags = Attribute(type=Type.LIST, required=True,                   *)
(*                        formatter=Formatter.integer,                     *)
(*                        validator=Validator.integer)                     *)
(*       on_id_name = Trigger({'id', 'name'}, handler)                     *)
(*       on_tags = Trigger({'tags'}, handler)                              *)
(*       on_tags_again = Trigger({'tags'}, handler)                        *)
(*                                                                         *)
(* with one instance of it. Handlers only observe their arguments.         *)
(***************************************************************************)
EXTENDS Integers, Sequences, FiniteSets, TLC

(***************************************************************************)
(* Bounds of the model.                                                    *)
(***************************************************************************)
\* the row identifiers the SQLite store hands out are 1..MaxRowId
MaxRowId == 2

\* _connect is called at most MaxConnects times with success
MaxConnects == 2

(***************************************************************************)
(* Python values.  A value is a record tagged with its Python type; a      *)
(* string is the sequence of its characters, so that int(str) and str(int) *)
(* are computed rather than assumed.                                       *)
(***************************************************************************)
None == [k |-> "none"]
PyBool(b) == [k |-> "bool", b |-> b]
PyInt(n) == [k |-> "int", n |-> n]
PyStr(s) == [k |-> "str", s |-> s]
PyList(l) == [k |-> "list", l |-> l]

\* the outcome of a call that raised ValueError instead of returning a value
ValueError == [k |-> "ValueError"]

IsNumber(v) == v.k \in {"bool", "int"}

\* bool is a subclass of int: True is 1 and False is 0
NumberOf(v) == IF v.k = "bool" THEN (IF v.b THEN 1 ELSE 0) ELSE v.n

\* Python's ==
RECURSIVE PyEq(_, _)
PyEq(a, b) ==
    IF IsNumber(a) /\ IsNumber(b) THEN NumberOf(a) = NumberOf(b)
    ELSE IF a.k # b.k THEN FALSE
    ELSE IF a.k = "list"
        THEN /\ Len(a.l) = Len(b.l)
             /\ \A i \in 1..Len(a.l) : PyEq(a.l[i], b.l[i])
    ELSE a = b

\* Python's truth value: bool(v), what `not v` and all() test
PyTruthy(v) ==
    CASE v.k = "none" -> FALSE
      [] v.k = "bool" -> v.b
      [] v.k = "int" -> v.n # 0
      [] v.k = "str" -> Len(v.s) > 0
      [] v.k = "list" -> Len(v.l) > 0

DigitChars == <<"0", "1", "2", "3", "4", "5", "6", "7", "8", "9">>

IsDigit(c) == \E i \in 1..10 : DigitChars[i] = c

DigitValue(c) == (CHOOSE i \in 1..10 : DigitChars[i] = c) - 1

\* the decimal digits of a natural number
RECURSIVE NatChars(_)
NatChars(n) ==
    IF n < 10 THEN <<DigitChars[n + 1]>>
    ELSE NatChars(n \div 10) \o <<DigitChars[(n % 10) + 1]>>

IntChars(n) == IF n < 0 THEN <<"-">> \o NatChars(0 - n) ELSE NatChars(n)

\* the value of a sequence of decimal digits
RECURSIVE DigitsValue(_)
DigitsValue(s) ==
    IF Len(s) = 0 THEN 0
    ELSE 10 * DigitsValue(SubSeq(s, 1, Len(s) - 1)) + DigitValue(s[Len(s)])

\* int(s) of a string: an optional sign, then one or more decimal digits
\* (the characters of the model are letters, digits and punctuation: the
\* blanks and underscores int() also accepts do not occur)
ParseInt(s) ==
    LET signed == Len(s) > 0 /\ s[1] \in {"-", "+"}
        digits == IF signed THEN Tail(s) ELSE s
    IN  IF Len(digits) = 0 \/ \E i \in 1..Len(digits) : ~IsDigit(digits[i])
        THEN ValueError
        ELSE IF signed /\ s[1] = "-" THEN PyInt(0 - DigitsValue(digits))
             ELSE PyInt(DigitsValue(digits))

\* repr(v) and str(v), as sequences of characters
RECURSIVE PyRepr(_)
RECURSIVE JoinRepr(_)
JoinRepr(l) ==
    IF Len(l) = 0 THEN <<>>
    ELSE IF Len(l) = 1 THEN PyRepr(l[1])
    ELSE PyRepr(l[1]) \o <<",", " ">> \o JoinRepr(Tail(l))

PyRepr(v) ==
    CASE v.k = "none" -> <<"N", "o", "n", "e">>
      [] v.k = "bool" -> IF v.b THEN <<"T", "r", "u", "e">>
                         ELSE <<"F", "a", "l", "s", "e">>
      [] v.k = "int" -> IntChars(v.n)
      [] v.k = "str" -> <<"'">> \o v.s \o <<"'">>
      [] v.k = "list" -> <<"[">> \o JoinRepr(v.l) \o <<"]">>

PyStrOf(v) == IF v.k = "str" THEN v.s ELSE PyRepr(v)

(***************************************************************************)
(* Dictionaries: functions from a finite set of keys.                      *)
(***************************************************************************)
EmptyDict == [key \in {} |-> None]

DictPut(d, key, value) ==
    [x \in DOMAIN d \cup {key} |-> IF x = key THEN value ELSE d[x]]

DictPop(d, key) == [x \in DOMAIN d \ {key} |-> d[x]]

\* dict(a, **b)
DictMerge(a, b) ==
    [x \in DOMAIN a \cup DOMAIN b |-> IF x \in DOMAIN b THEN b[x] ELSE a[x]]

\* d.get(key, default)
DictGet(d, key, default) == IF key \in DOMAIN d THEN d[key] ELSE default

(***************************************************************************)
(* Formatter and Validator.                                                *)
(***************************************************************************)
\* Formatter.integer: int(value), any exception turned into ValueError
FormatterInteger(value) ==
    CASE value.k = "bool" -> PyInt(NumberOf(value))
      [] value.k = "int" -> value
      [] value.k = "str" -> ParseInt(value.s)
      [] OTHER -> ValueError

\* Formatter.string: str(value)
FormatterString(value) == PyStr(PyStrOf(value))

\* Validator.integer: isinstance(value, six.integer_types); bool is an int
ValidatorInteger(value) == value.k \in {"int", "bool"}

\* Validator.string: isinstance(value, six.string_types)
ValidatorString(value) == value.k = "str"

(***************************************************************************)
(* Attribute.                                                              *)
(***************************************************************************)
\* the three Attribute declarations of the Model type: what
\* Attribute.__init__ and the typed subclasses store on each
IdAttribute ==
    [default |-> None, formatter |-> "integer", required |-> FALSE,
     type |-> "int", validator |-> "integer"]

NameAttribute ==
    [default |-> None, formatter |-> "string", required |-> TRUE,
     type |-> "str", validator |-> "string"]

TagsAttribute ==
    [default |-> None, formatter |-> "integer", required |-> TRUE,
     type |-> "list", validator |-> "integer"]

\* attribute.formatter(value)
CallFormatter(attribute, value) ==
    CASE attribute.formatter = "integer" -> FormatterInteger(value)
      [] attribute.formatter = "string" -> FormatterString(value)

\* attribute.validator(value)
CallValidator(attribute, value) ==
    CASE attribute.validator = "integer" -> ValidatorInteger(value)
      [] attribute.validator = "string" -> ValidatorString(value)

\* Attribute.format: the formatted value, or ValueError
AttributeFormat(attribute, value) ==
    IF value = None THEN None
    ELSE IF attribute.type = "list" /\ value.k = "list"
        THEN IF \E i \in 1..Len(value.l) :
                    CallFormatter(attribute, value.l[i]) = ValueError
             THEN ValueError
             ELSE PyList([i \in 1..Len(value.l) |->
                            CallFormatter(attribute, value.l[i])])
    ELSE CallFormatter(attribute, value)

\* Attribute.validate
AttributeValidate(attribute, value) ==
    IF attribute.required /\ ~PyTruthy(value) THEN FALSE
    ELSE IF ~PyTruthy(value) THEN TRUE
    ELSE IF attribute.type = "list" /\ value.k = "list"
        THEN \A i \in 1..Len(value.l) : CallValidator(attribute, value.l[i])
    ELSE CallValidator(attribute, value)

(***************************************************************************)
(* The metadata of the Model type.                                         *)
(***************************************************************************)
\* the declared names, in the order of the class body, which is the order
\* in which attribute_metadata.items() yields them
AttributeNames == <<"id", "name", "tags">>

\* Model.attribute_metadata
AttributeMetadata ==
    [attribute_name \in {"id", "name", "tags"} |->
        CASE attribute_name = "id" -> IdAttribute
          [] attribute_name = "name" -> NameAttribute
          [] attribute_name = "tags" -> TagsAttribute]

\* the Trigger declarations of the class body, in order
TriggerDeclarations ==
    <<[attribute_names |-> {"id", "name"}, handler |-> "on_id_name"],
      [attribute_names |-> {"tags"}, handler |-> "on_tags"],
      [attribute_names |-> {"tags"}, handler |-> "on_tags_again"]>>

\* Model.trigger_metadata: a dict keyed by the triggers' frozensets, built
\* from the declarations in order; a later declaration with a key already
\* present replaces the value and keeps the key's place
RECURSIVE TriggerDict(_)
TriggerDict(declarations) ==
    IF Len(declarations) = 0 THEN <<>>
    ELSE LET before == TriggerDict(SubSeq(declarations, 1, Len(declarations) - 1))
             trigger == declarations[Len(declarations)]
         IN  IF \E i \in 1..Len(before) :
                    before[i].attribute_names = trigger.attribute_names
             THEN [i \in 1..Len(before) |->
                    IF before[i].attribute_names = trigger.attribute_names
                    THEN trigger ELSE before[i]]
             ELSE Append(before, trigger)

TriggerMetadata == TriggerDict(TriggerDeclarations)

(***************************************************************************)
(* The inputs of the model.                                                *)
(***************************************************************************)
Abc == PyStr(<<"a", "b", "c">>)

\* the raw values written to each field: for every kind the values that
\* format, the values that do not, the falsy and the truthy ones
Values(attribute_name) ==
    CASE attribute_name = "id" ->
            {None, Abc, PyStr(<<"1">>), PyInt(0), PyInt(1)}
      [] attribute_name = "name" ->
            {None, PyStr(<<>>), Abc, PyInt(0)}
      [] attribute_name = "tags" ->
            {None, PyList(<<>>), PyList(<<PyInt(1)>>), PyList(<<Abc>>)}

\* the mappings a Model is constructed from
SeedMappings ==
    UNION {[names -> UNION {Values(n) : n \in names}] :
                names \in SUBSET DOMAIN AttributeMetadata}

Seeds ==
    {attributes \in SeedMappings :
        \A n \in DOMAIN attributes : attributes[n] \in Values(n)}

\* the persistor handed to the constructor: none; a Persistor whose persist
\* returns None or a key mapping; a SQLitePersistor keyed by the declared
\* field id or by rowid, a name the Model type does not declare
NoPersistor == [kind |-> "none", key_attribute_names |-> {}]

Persistors ==
    {NoPersistor,
     [kind |-> "custom", key_attribute_names |-> {"id"}],
     [kind |-> "sqlite", key_attribute_names |-> {"id"}],
     [kind |-> "sqlite", key_attribute_names |-> {"rowid"}]}

(***************************************************************************)
(* Model: the state of one instance.                                       *)
(***************************************************************************)
VARIABLES
    initialized,             \* Model.initialized; FALSE until __init__ ends
    persistor,               \* Model.persistor
    attribute_data,          \* Model.attribute_data
    changed_attribute_data,  \* Model.changed_attribute_data
    processed_attributes,    \* Model.processed_attributes
    last,                    \* the last call made on the Model and its outcome
    fired,                   \* the handler invocations of the last call, in order
    persistor_call,          \* the persistor.persist call of the last call
    differed,                \* history: the names written, since construction
                             \* began, with a value differing from the prior
                             \* effective value
    instance_dict,           \* the instance's __dict__, but for the attributes
                             \* the Model class keeps there itself
    connection,              \* SQLPersistor._connection: 0 while the attribute
                             \* is not set, else the number of the connection
    connects,                \* history: how many calls of _connect returned
    class_dict               \* for each Model class, the metadata cached in
                             \* the class's own __dict__

vars ==
    <<initialized, persistor, attribute_data, changed_attribute_data,
      processed_attributes, last, fired, persistor_call, differed,
      instance_dict, connection, connects, class_dict>>

\* the variables of the instance's other attributes, of the SQLPersistor and
\* of the classes
others == <<instance_dict, connection, connects, class_dict>>

\* the classes: Model, the Entity of the instance, a class derived from
\* Entity and another derived from Model
Classes == {"Model", "Entity", "Derived", "Other"}

NoCall == [made |-> FALSE]

\* the lazily built attribute_data: every declared name with its default
DefaultAttributeData ==
    [attribute_name \in DOMAIN AttributeMetadata |->
        AttributeMetadata[attribute_name].default]

\* MergedAttributeData, without the changed values
MergedStoredOnly(data, changed) == data

\* Model.merged_attribute_data
MergedAttributeData(data, changed) == DictMerge(data, changed)

\* the handler invocations of one write: every trigger of trigger_metadata,
\* in order, that names the attribute and whose names are all processed
\* Triggered, firing whatever names the attribute: the processed names are
\* not consulted
RECURSIVE TriggeredAnyNamed(_, _, _, _, _)
TriggeredAnyNamed(triggers, attribute_name, processed, old, new) ==
    IF Len(triggers) = 0 THEN <<>>
    ELSE LET trigger == Head(triggers)
             rest == TriggeredAnyNamed(Tail(triggers), attribute_name,
                                       processed, old, new)
         IN  IF attribute_name \in trigger.attribute_names
             THEN <<[handler |-> trigger.handler,
                     old_attribute_value |-> old,
                     new_attribute_value |-> new]>> \o rest
             ELSE rest

RECURSIVE Triggered(_, _, _, _, _)
Triggered(triggers, attribute_name, processed, old, new) ==
    IF Len(triggers) = 0 THEN <<>>
    ELSE LET trigger == Head(triggers)
             rest == Triggered(Tail(triggers), attribute_name, processed, old, new)
         IN  IF /\ attribute_name \in trigger.attribute_names
                /\ trigger.attribute_names \subseteq processed
             THEN <<[handler |-> trigger.handler,
                     old_attribute_value |-> old,
                     new_attribute_value |-> new]>> \o rest
             ELSE rest

\* whether __setattr__ raises ValueError: the formatter failed, or the
\* formatted value is not valid
\* Rejected, with the validation left out
RejectedFormatOnly(attribute, new_attribute_value) ==
    new_attribute_value = ValueError

Rejected(attribute, new_attribute_value) ==
    \/ new_attribute_value = ValueError
    \/ ~AttributeValidate(attribute, new_attribute_value)

\* old_attribute_value of __setattr__: the changed value if there is one,
\* else the stored one
\* OldAttributeValue, reading the stored value only
OldAttributeValueStored(m, attribute_name) ==
    DictGet(m.attribute_data, attribute_name, None)

OldAttributeValue(m, attribute_name) ==
    DictGet(m.changed_attribute_data, attribute_name,
            DictGet(m.attribute_data, attribute_name, None))

\* Store, writing every accepted value into attribute_data as during
\* construction
StoreInData(m, attribute_name, new_attribute_value, old_attribute_value) ==
    LET processed == m.processed_attributes \cup {attribute_name}
    IN  [m EXCEPT
            !.attribute_data = DictPut(@, attribute_name, new_attribute_value),
            !.processed_attributes = processed,
            !.fired = @ \o Triggered(TriggerMetadata, attribute_name,
                                     processed, old_attribute_value,
                                     new_attribute_value)]

\* Store, with a tracked write beginning the processed names anew
StoreForgetful(m, attribute_name, new_attribute_value, old_attribute_value) ==
    IF ~m.initialized
    THEN [m EXCEPT
            !.attribute_data = DictPut(@, attribute_name, new_attribute_value),
            !.processed_attributes = @ \cup {attribute_name}]
    ELSE IF \/ attribute_name \notin DOMAIN m.attribute_data
            \/ ~PyEq(new_attribute_value, old_attribute_value)
    THEN [m EXCEPT
            !.changed_attribute_data =
                DictPut(@, attribute_name, new_attribute_value),
            !.processed_attributes = {attribute_name}]
    ELSE [m EXCEPT
            !.changed_attribute_data = DictPop(@, attribute_name),
            !.processed_attributes = @ \ {attribute_name}]

\* the branches of __setattr__ once the value is accepted: store, track,
\* mark processed and fire, or drop the change
Store(m, attribute_name, new_attribute_value, old_attribute_value) ==
    LET processed == m.processed_attributes \cup {attribute_name}
        triggered ==
            Triggered(TriggerMetadata, attribute_name, processed,
                      old_attribute_value, new_attribute_value)
    IN  IF ~m.initialized
        THEN [m EXCEPT
                !.attribute_data =
                    DictPut(@, attribute_name, new_attribute_value),
                !.processed_attributes = processed,
                !.fired = @ \o triggered]
        ELSE IF \/ attribute_name \notin DOMAIN m.attribute_data
                \/ ~PyEq(new_attribute_value, old_attribute_value)
        THEN [m EXCEPT
                !.changed_attribute_data =
                    DictPut(@, attribute_name, new_attribute_value),
                !.processed_attributes = processed,
                !.fired = @ \o triggered]
        ELSE [m EXCEPT
                !.changed_attribute_data = DictPop(@, attribute_name),
                !.processed_attributes = @ \ {attribute_name}]

\* Model.__setattr__ on a declared name.  m holds the instance's
\* attribute_data, changed_attribute_data, processed_attributes and
\* initialized, the invocations fired so far and whether a call has raised
SetAttr(m, attribute_name, attribute_value) ==
    LET attribute == AttributeMetadata[attribute_name]
        new_attribute_value == AttributeFormat(attribute, attribute_value)
    IN  IF Rejected(attribute, new_attribute_value)
        THEN [m EXCEPT !.raised = TRUE]
        ELSE Store(m, attribute_name, new_attribute_value,
                   OldAttributeValue(m, attribute_name))

\* the instance as SetAttr takes it, before a call
Instance ==
    [attribute_data |-> attribute_data,
     changed_attribute_data |-> changed_attribute_data,
     processed_attributes |-> processed_attributes,
     initialized |-> initialized,
     fired |-> <<>>,
     raised |-> FALSE]

\* the loop of Model.__init__: a write per declared name that the mapping
\* holds, in the order of attribute_metadata, ended by the first that raises
RECURSIVE InitLoop(_, _, _)
InitLoop(m, names, attributes) ==
    IF Len(names) = 0 \/ m.raised THEN m
    ELSE IF Head(names) \in DOMAIN attributes
        THEN InitLoop(SetAttr(m, Head(names), attributes[Head(names)]),
                      Tail(names), attributes)
    ELSE InitLoop(m, Tail(names), attributes)

\* a call on the Model: the operation, its arguments (the name and raw value
\* of a write, the mapping of a construction) and how it ended
Call(op, attribute_name, attribute_value, attributes, outcome) ==
    [op |-> op, attribute_name |-> attribute_name,
     attribute_value |-> attribute_value, attributes |-> attributes,
     outcome |-> outcome]

\* whether writing the raw value to the name offers a formatted value that
\* differs from the name's effective value
Differs(data, changed, attribute_name, attribute_value) ==
    LET new == AttributeFormat(AttributeMetadata[attribute_name], attribute_value)
    IN  /\ new # ValueError
        /\ ~PyEq(new, DictGet(MergedAttributeData(data, changed),
                              attribute_name, None))

Init ==
    /\ initialized = FALSE
    /\ persistor = NoPersistor
    /\ attribute_data = DefaultAttributeData
    /\ changed_attribute_data = EmptyDict
    /\ processed_attributes = {}
    /\ last = Call("none", "-", None, EmptyDict, "returned")
    /\ fired = <<>>
    /\ persistor_call = NoCall
    /\ differed = {}
    /\ instance_dict = EmptyDict
    /\ connection = 0
    /\ connects = 0
    /\ class_dict = [cls \in Classes |-> EmptyDict]

\* Model.__init__(attributes, persistor=p), called once.  A construction
\* that raises yields no instance: nothing can be called on it afterwards
Construct(p, attributes) ==
    /\ ~initialized
    /\ last.op = "none"
    /\ LET m == InitLoop(Instance, AttributeNames, attributes)
       IN  IF m.raised
           THEN /\ last' = Call("__init__", "-", None, attributes, "ValueError")
                /\ fired' = m.fired
                /\ UNCHANGED <<initialized, persistor, attribute_data,
                               changed_attribute_data, processed_attributes,
                               differed>>
           ELSE /\ initialized' = TRUE
                /\ persistor' = p
                /\ attribute_data' = m.attribute_data
                /\ changed_attribute_data' = m.changed_attribute_data
                /\ processed_attributes' = m.processed_attributes
                /\ fired' = m.fired
                /\ last' = Call("__init__", "-", None, attributes, "returned")
                /\ differed' =
                        {n \in DOMAIN attributes \cap DOMAIN AttributeMetadata :
                            Differs(attribute_data, changed_attribute_data,
                                    n, attributes[n])}
    /\ persistor_call' = NoCall
    /\ UNCHANGED others

\* a write model.attribute_name = attribute_value after construction
Write(attribute_name, attribute_value) ==
    /\ initialized
    /\ LET m == SetAttr(Instance, attribute_name, attribute_value)
       IN  /\ attribute_data' = m.attribute_data
           /\ changed_attribute_data' = m.changed_attribute_data
           /\ processed_attributes' = m.processed_attributes
           /\ fired' = m.fired
           /\ last' = Call("__setattr__", attribute_name, attribute_value,
                           EmptyDict,
                           IF m.raised THEN "ValueError" ELSE "returned")
           /\ differed' =
                IF /\ ~m.raised
                   /\ Differs(attribute_data, changed_attribute_data,
                              attribute_name, attribute_value)
                THEN differed \cup {attribute_name}
                ELSE differed
    /\ persistor_call' = NoCall
    /\ UNCHANGED <<initialized, persistor>>
    /\ UNCHANGED others

\* ValidateAll, looking at the first declared name only
ValidateAllFirst(names, merged) ==
    IF Len(names) = 0 THEN "True"
    ELSE IF Head(names) \notin DOMAIN merged THEN "KeyError"
    ELSE IF ~AttributeValidate(AttributeMetadata[Head(names)],
                               merged[Head(names)])
        THEN "False"
    ELSE "True"

\* all(attribute.validate(merged[name]) for name, attribute in
\* attribute_metadata.items()): the first failure ends the iteration, and a
\* declared name that merged does not hold raises KeyError
RECURSIVE ValidateAll(_, _)
ValidateAll(names, merged) ==
    IF Len(names) = 0 THEN "True"
    ELSE IF Head(names) \notin DOMAIN merged THEN "KeyError"
    ELSE IF ~AttributeValidate(AttributeMetadata[Head(names)],
                               merged[Head(names)])
        THEN "False"
    ELSE ValidateAll(Tail(names), merged)

\* ValidateResult, never failing
ValidateResultTrue(data, changed) == "True"

\* Model.validate's result on an instance
ValidateResult(data, changed) ==
    ValidateAll(AttributeNames, MergedAttributeData(data, changed))

\* model.validate()
Validate ==
    /\ initialized
    /\ last' = Call("validate", "-", None, EmptyDict,
                    ValidateResult(attribute_data, changed_attribute_data))
    /\ fired' = <<>>
    /\ persistor_call' = NoCall
    /\ UNCHANGED <<initialized, persistor, attribute_data,
                   changed_attribute_data, processed_attributes, differed>>
    /\ UNCHANGED others

(***************************************************************************)
(* Persistors.                                                             *)
(***************************************************************************)
\* SQLPersistor._partition_attributes
KeyAttributes(p, attributes) ==
    [n \in DOMAIN attributes \cap p.key_attribute_names |-> attributes[n]]

NonKeyAttributes(p, attributes) ==
    [n \in DOMAIN attributes \ p.key_attribute_names |-> attributes[n]]

\* Statement, choosing by all(key_attributes.values()) alone
StatementAllTruthy(p, attributes) ==
    IF \A n \in DOMAIN attributes \cap p.key_attribute_names :
            PyTruthy(attributes[n])
    THEN "UPDATE"
    ELSE "INSERT"

\* SQLPersistor.persist: the statement issued
Statement(p, attributes) ==
    LET key_attributes == KeyAttributes(p, attributes)
    IN  IF /\ DOMAIN key_attributes # {}
           /\ \A n \in DOMAIN key_attributes : PyTruthy(key_attributes[n])
        THEN "UPDATE"
        ELSE "INSERT"

\* SQLPersistor._column_value, as a sequence of characters
ColumnValue(attribute_value) ==
    IF attribute_value # None
    THEN <<"'">> \o PyStrOf(attribute_value) \o <<"'">>
    ELSE <<"N", "U", "L", "L">>

\* the column = value pairs of a statement, by attribute name (the column
\* of an attribute is _column_name of its name)
Columns(attributes) ==
    [n \in DOMAIN attributes |-> ColumnValue(attributes[n])]

\* SQLPersistor._insert_sql: the columns and the values inserted
InsertSql(non_key_attributes) ==
    [verb |-> "INSERT", set |-> Columns(non_key_attributes),
     where |-> EmptyDict]

\* SQLPersistor._update_sql: the pairs of SET and the pairs of WHERE
UpdateSql(key_attributes, non_key_attributes) ==
    [verb |-> "UPDATE", set |-> Columns(non_key_attributes),
     where |-> Columns(key_attributes)]

\* no statement: the persistor is not a SQLPersistor
NoSql == [verb |-> "none", set |-> EmptyDict, where |-> EmptyDict]

\* SQLPersistor.persist, _insert and _update: the SQL executed
Sql(p, attributes) ==
    IF p.kind # "sqlite" THEN NoSql
    ELSE IF Statement(p, attributes) = "UPDATE"
    THEN UpdateSql(KeyAttributes(p, attributes),
                   NonKeyAttributes(p, attributes))
    ELSE InsertSql(NonKeyAttributes(p, attributes))

\* result.lastrowid of the cursor of a statement.  An INSERT yields the new
\* row's identifier.  After an UPDATE the attribute is what the build of the
\* sqlite3 module leaves there: None, or the identifier of the last row
\* inserted through the connection, 0 when there was none
LastRowIds(statement) ==
    IF statement = "INSERT" THEN {PyInt(n) : n \in 1..MaxRowId}
    ELSE {None} \cup {PyInt(n) : n \in 0..MaxRowId}

\* SQLitePersistor._map_insert_result and _map_update_result
MapResult(p, lastrowid) ==
    [n \in {CHOOSE key \in p.key_attribute_names : TRUE} |-> lastrowid]

\* what a Persistor written by the user returns from persist: None or a
\* mapping of key attributes
CustomResults(p) ==
    {None, EmptyDict}
        \cup {[n \in p.key_attribute_names |-> PyInt(i)] : i \in 1..MaxRowId}

\* persistor.persist(attributes): the results it can return
PersistResults(p, attributes) ==
    IF p.kind = "sqlite"
    THEN {MapResult(p, lastrowid) :
            lastrowid \in LastRowIds(Statement(p, attributes))}
    ELSE CustomResults(p)

\* PersistUpdate, clearing the changes whatever the persistor returned
PersistUpdateClears(data, changed, key_attribute_data) ==
    IF key_attribute_data = None
    THEN [outcome |-> "False", attribute_data |-> data,
          changed_attribute_data |-> EmptyDict]
    ELSE [outcome |-> "True",
          attribute_data |->
            DictMerge(MergedAttributeData(data, changed), key_attribute_data),
          changed_attribute_data |-> EmptyDict]

\* the end of Model.persist, from the persistor's result on: what it returns
\* and the attribute_data and changed_attribute_data it leaves
PersistUpdate(data, changed, key_attribute_data) ==
    IF key_attribute_data = None
    THEN [outcome |-> "False", attribute_data |-> data,
          changed_attribute_data |-> changed]
    ELSE [outcome |-> "True",
          attribute_data |->
            DictMerge(MergedAttributeData(data, changed), key_attribute_data),
          changed_attribute_data |-> EmptyDict]

\* model.persist()
Persist ==
    /\ initialized
    /\ fired' = <<>>
    /\ UNCHANGED <<initialized, persistor, processed_attributes, differed>>
    /\ UNCHANGED others
    /\ IF persistor = NoPersistor
       THEN /\ last' = Call("persist", "-", None, EmptyDict, "RuntimeError")
            /\ persistor_call' = NoCall
            /\ UNCHANGED <<attribute_data, changed_attribute_data>>
       ELSE IF ValidateResult(attribute_data, changed_attribute_data) # "True"
       THEN /\ last' = Call("persist", "-", None, EmptyDict,
                            ValidateResult(attribute_data,
                                           changed_attribute_data))
            /\ persistor_call' = NoCall
            /\ UNCHANGED <<attribute_data, changed_attribute_data>>
       ELSE \E key_attribute_data \in
                    PersistResults(persistor,
                        MergedAttributeData(attribute_data,
                                            changed_attribute_data)) :
                LET after == PersistUpdate(attribute_data,
                                           changed_attribute_data,
                                           key_attribute_data)
                IN  /\ persistor_call' =
                            [made |-> TRUE,
                             attributes |->
                                MergedAttributeData(attribute_data,
                                                    changed_attribute_data),
                             statement |->
                                Sql(persistor,
                                    MergedAttributeData(attribute_data,
                                                        changed_attribute_data)),
                             result |-> key_attribute_data]
                    /\ attribute_data' = after.attribute_data
                    /\ changed_attribute_data' = after.changed_attribute_data
                    /\ last' = Call("persist", "-", None, EmptyDict,
                                    after.outcome)

Next ==
    \/ \E p \in Persistors, attributes \in Seeds : Construct(p, attributes)
    \/ \E attribute_name \in DOMAIN AttributeMetadata :
            \E attribute_value \in Values(attribute_name) :
                Write(attribute_name, attribute_value)
    \/ Validate
    \/ Persist

Spec == Init /\ [][Next]_vars

(***************************************************************************)
(* The claims.  A step of the model is one call on the Model; last', fired' *)
(* and persistor_call' describe the call of the step, the unprimed          *)
(* variables the instance before it.                                        *)
(***************************************************************************)
\* the effective value of a declared name: the changed value if there is
\* one, else the stored one
Effective(data, changed, attribute_name) ==
    IF attribute_name \in DOMAIN changed THEN changed[attribute_name]
    ELSE data[attribute_name]

\* the formatted value of the raw value of the call
Formatted(call) ==
    AttributeFormat(AttributeMetadata[call.attribute_name], call.attribute_value)

\* how often a handler is invoked in a sequence of invocations
Fires(handler, invocations) ==
    Cardinality({i \in 1..Len(invocations) : invocations[i].handler = handler})

\* the names of the trigger on_id_name
Pair == {"id", "name"}

\* C1: a write, to an initialized Model, of a value whose formatted value
\* equals the field's effective value leaves the field out of
\* changed_attribute_data and invokes no handler
C1_EqualWriteIsNoOp ==
    [][(/\ last'.op = "__setattr__"
        /\ Formatted(last') # ValueError
        /\ PyEq(Formatted(last'),
                Effective(attribute_data, changed_attribute_data,
                          last'.attribute_name)))
       => (/\ last'.attribute_name \notin DOMAIN changed_attribute_data'
           /\ fired' = <<>>)]_vars

\* C1 witness: a write has returned that found its value pending in
\* changed_attribute_data and dropped it: the field is no longer changed nor
\* processed, nothing fired, and the value written is not the stored one
C1_Witness ==
    /\ last.op = "__setattr__"
    /\ last.outcome = "returned"
    /\ last.attribute_name \notin DOMAIN changed_attribute_data
    /\ last.attribute_name \notin processed_attributes
    /\ fired = <<>>
    /\ ~PyEq(Formatted(last), attribute_data[last.attribute_name])

\* C2 as claimed: the handler of the trigger on {id, name} fires once, in the
\* call that makes both names written with a differing value, and in no
\* other call
C2_FiresOncePerPair ==
    [][Fires("on_id_name", fired') =
            IF Pair \subseteq differed' /\ ~(Pair \subseteq differed)
            THEN 1 ELSE 0]_vars

\* C2 amended: the handler of the trigger on {id, name} is invoked once by
\* every write of id or name that is recorded (an accepted seed write of the
\* construction, or a later write whose formatted value differs from the
\* effective value) and after which both names are processed, and by nothing
\* else; a construction invokes it once when both names are seeded and
\* accepted
C2_FiresWhenProcessed ==
    [][Fires("on_id_name", fired') =
            CASE last'.op = "__setattr__" ->
                    IF /\ last'.outcome = "returned"
                       /\ last'.attribute_name \in Pair
                       /\ Differs(attribute_data, changed_attribute_data,
                                  last'.attribute_name, last'.attribute_value)
                       /\ Pair \subseteq processed_attributes'
                    THEN 1 ELSE 0
              [] last'.op = "__init__" ->
                    IF /\ Pair \subseteq DOMAIN last'.attributes
                       /\ \A n \in Pair :
                            ~Rejected(AttributeMetadata[n],
                                AttributeFormat(AttributeMetadata[n],
                                                last'.attributes[n]))
                    THEN 1 ELSE 0
              [] OTHER -> 0]_vars

\* C2 witness: a write after construction has fired the handler although
\* one of the two names was never written with a differing value
C2_Witness ==
    /\ last.op = "__setattr__"
    /\ Fires("on_id_name", fired) = 1
    /\ ~(Pair \subseteq differed)

\* C3: a write whose value does not format, or whose formatted value is not
\* valid, raises, and it leaves attribute_data, changed_attribute_data and
\* processed_attributes as they were and invokes no handler; no other write
\* raises
C3_RejectedWriteLeavesState ==
    [][last'.op = "__setattr__" =>
        LET bad == \/ Formatted(last') = ValueError
                   \/ ~AttributeValidate(
                            AttributeMetadata[last'.attribute_name],
                            Formatted(last'))
        IN  /\ bad <=> last'.outcome = "ValueError"
            /\ bad => /\ UNCHANGED <<attribute_data, changed_attribute_data,
                                     processed_attributes>>
                      /\ fired' = <<>>]_vars

\* C3 witness: "abc" was written to the integer field of an instance with
\* a pending change, and the write raised
C3_Witness ==
    /\ last = Call("__setattr__", "id", Abc, EmptyDict, "ValueError")
    /\ DOMAIN changed_attribute_data # {}
    /\ processed_attributes # {}

\* whether a raw value is a value of the attribute's declared kind
OfKind(attribute, value) ==
    CASE attribute.type = "str" -> value.k = "str"
      [] attribute.type = "int" -> value.k = "int"
      [] attribute.type = "list" ->
            /\ value.k = "list"
            /\ \A i \in 1..Len(value.l) : value.l[i].k = "int"

\* whether a raw value is None or a falsy value of the declared kind
FalsyOfKind(attribute, value) ==
    value = None \/ (OfKind(attribute, value) /\ ~PyTruthy(value))

\* whether a raw value is a non-falsy value of the declared kind
TruthyOfKind(attribute, value) == OfKind(attribute, value) /\ PyTruthy(value)

\* whether every declared field's validation rule holds on its effective
\* value
EveryFieldValid(data, changed) ==
    \A n \in DOMAIN AttributeMetadata :
        AttributeValidate(AttributeMetadata[n], Effective(data, changed, n))

\* C4 as claimed: for a required field, a construction or a write with None
\* or a falsy value of the field's kind raises; a write with a non-falsy
\* value of the kind returns and the value is the field's effective value
\* afterwards, and so for a construction whose values for the required
\* fields are all such and whose other values are accepted
C4_RequiredFields ==
    [][/\ last'.op = "__setattr__"
            /\ AttributeMetadata[last'.attribute_name].required
          => LET attribute == AttributeMetadata[last'.attribute_name]
                 value == last'.attribute_value
             IN  /\ FalsyOfKind(attribute, value)
                        => last'.outcome = "ValueError"
                 /\ TruthyOfKind(attribute, value)
                        => /\ last'.outcome = "returned"
                           /\ Effective(attribute_data',
                                        changed_attribute_data',
                                        last'.attribute_name) = value
       /\ last'.op = "__init__"
          => LET required == {n \in DOMAIN last'.attributes :
                                AttributeMetadata[n].required}
             IN  /\ (\E n \in required :
                        FalsyOfKind(AttributeMetadata[n], last'.attributes[n]))
                        => last'.outcome = "ValueError"
                 /\ (\A n \in DOMAIN last'.attributes :
                        \/ TruthyOfKind(AttributeMetadata[n],
                                        last'.attributes[n])
                        \/ /\ ~AttributeMetadata[n].required
                           /\ ~Rejected(AttributeMetadata[n],
                                    AttributeFormat(AttributeMetadata[n],
                                                    last'.attributes[n])))
                        => /\ last'.outcome = "returned"
                           /\ \A n \in required :
                                Effective(attribute_data',
                                          changed_attribute_data', n)
                                    = last'.attributes[n]]_vars

C6_NoResultKeepsChanges ==
    [][/\ (/\ last'.op = "persist"
           /\ persistor_call'.made
           /\ persistor_call'.result = None)
            => /\ last'.outcome = "False"
               /\ UNCHANGED <<attribute_data, changed_attribute_data>>
       /\ (/\ persistor_call.made
           /\ persistor_call.result = None
           /\ last'.op = "persist")
            => /\ persistor_call'.made
               /\ persistor_call'.attributes = persistor_call.attributes]_vars

\* C6 witness: the persistor was called with pending changes merged in and
\* returned None; the changes are still pending
C6_Witness ==
    /\ last.op = "persist"
    /\ last.outcome = "False"
    /\ persistor_call.made
    /\ persistor_call.result = None
    /\ DOMAIN changed_attribute_data # {}
    /\ persistor_call.attributes
            = DictMerge(attribute_data, changed_attribute_data)

\* C7: persist returns True exactly when there is a persistor, every field
\* is valid and the persistor returns a mapping K; the persistor was then
\* handed M, attribute_data overlaid with changed_attribute_data, which has
\* an entry for every declared field; afterwards attribute_data is M
\* overlaid with K and changed_attribute_data is empty
C7_SuccessfulPersist ==
    [][last'.op = "persist" =>
        LET M == DictMerge(attribute_data, changed_attribute_data)
        IN  /\ last'.outcome = "True"
                <=> /\ persistor # NoPersistor
                    /\ EveryFieldValid(attribute_data, changed_attribute_data)
                    /\ persistor_call'.made
                    /\ persistor_call'.result # None
            /\ last'.outcome = "True"
                => /\ persistor_call'.attributes = M
                   /\ DOMAIN AttributeMetadata \subseteq DOMAIN M
                   /\ attribute_data' = DictMerge(M, persistor_call'.result)
                   /\ changed_attribute_data' = EmptyDict]_vars

\* C7 witness: a persist has returned True, and the key the persistor
\* returned is in attribute_data on top of what it was handed
C7_Witness ==
    /\ last.op = "persist"
    /\ last.outcome = "True"
    /\ persistor_call.made
    /\ DOMAIN persistor_call.result # {}
    /\ attribute_data # persistor_call.attributes
    /\ attribute_data
            = DictMerge(persistor_call.attributes, persistor_call.result)
    /\ changed_attribute_data = EmptyDict

\* C8: after construction attribute_data changes only in a persist that
\* returns True; a write that is accepted and differs from the effective
\* value is recorded in changed_attribute_data
C8_DataChangesOnlyOnPersist ==
    [][/\ (initialized /\ attribute_data' # attribute_data)
            => (last'.op = "persist" /\ last'.outcome = "True")
       /\ (/\ last'.op = "__setattr__"
           /\ last'.outcome = "returned"
           /\ Differs(attribute_data, changed_attribute_data,
                      last'.attribute_name, last'.attribute_value))
            => /\ last'.attribute_name \in DOMAIN changed_attribute_data'
               /\ changed_attribute_data'[last'.attribute_name]
                    = Formatted(last')]_vars

\* C8 witness: an accepted write after construction is pending in
\* changed_attribute_data and attribute_data still holds the older value
C8_Witness ==
    /\ last.op = "__setattr__"
    /\ last.outcome = "returned"
    /\ last.attribute_name \in DOMAIN changed_attribute_data
    /\ changed_attribute_data[last.attribute_name] = Formatted(last)
    /\ ~PyEq(attribute_data[last.attribute_name], Formatted(last))

\* C9 as claimed: every key of attribute_data and of changed_attribute_data
\* is a declared name
C9_KeysAreDeclared ==
    /\ DOMAIN attribute_data \subseteq DOMAIN AttributeMetadata
    /\ DOMAIN changed_attribute_data \subseteq DOMAIN AttributeMetadata

\* C10: validate returns True if every declared field's validation rule
\* holds on its effective value and False if not; it does not raise, leaves
\* attribute_data, changed_attribute_data and processed_attributes as they
\* were and invokes no handler
C10_ValidateIsPure ==
    [][last'.op = "validate" =>
        /\ last'.outcome \in {"True", "False"}
        /\ last'.outcome = "True"
            <=> EveryFieldValid(attribute_data, changed_attribute_data)
        /\ UNCHANGED <<attribute_data, changed_attribute_data,
                       processed_attributes>>
        /\ fired' = <<>>]_vars

\* C10 witness: validate has returned False on an instance whose first
\* declared field is valid and whose pending changes are valid, because of a
\* stored value that is not
C10_Witness ==
    /\ last.op = "validate"
    /\ last.outcome = "False"
    /\ DOMAIN changed_attribute_data # {}
    /\ \A n \in DOMAIN changed_attribute_data :
            AttributeValidate(AttributeMetadata[n], changed_attribute_data[n])
    /\ AttributeValidate(AttributeMetadata["id"],
                         Effective(attribute_data, changed_attribute_data, "id"))

\* C16: processed_attributes is the set of the seeded names after a
\* construction, gains the written name with every write that is stored or
\* tracked, loses it, and nothing else, with a write that is dropped as
\* equal to the effective value, and is left alone by a rejected write, by
\* validate and by persist; a stored or tracked write invokes on_id_name
\* when the other name of the pair was processed before it
C16_ProcessedAccumulates ==
    [][/\ (last'.op = "__init__" /\ last'.outcome = "returned")
            => processed_attributes'
                = DOMAIN last'.attributes \cap DOMAIN AttributeMetadata
       /\ last'.op \in {"validate", "persist"}
            => processed_attributes' = processed_attributes
       /\ (last'.op = "__setattr__" /\ last'.outcome # "returned")
            => processed_attributes' = processed_attributes
       /\ (last'.op = "__setattr__" /\ last'.outcome = "returned")
            => IF Differs(attribute_data, changed_attribute_data,
                          last'.attribute_name, last'.attribute_value)
               THEN /\ processed_attributes'
                        = processed_attributes \cup {last'.attribute_name}
                    /\ (/\ last'.attribute_name \in Pair
                        /\ Pair \ {last'.attribute_name}
                                \subseteq processed_attributes)
                        => Fires("on_id_name", fired') = 1
               ELSE processed_attributes'
                        = processed_attributes \ {last'.attribute_name}]_vars

\* C16 witness: a write of name after construction has invoked on_id_name
\* although id has no pending change: id was seeded at construction or
\* written before a persist that has cleared the changes
C16_Witness ==
    /\ last.op = "__setattr__"
    /\ last.attribute_name = "name"
    /\ Fires("on_id_name", fired) = 1
    /\ "id" \notin DOMAIN changed_attribute_data
    /\ "id" \in processed_attributes

\* C18 as claimed: after a write to a declared field of an initialized
\* Model that returns, the field's effective value equals the formatted
\* value written
C18_WriteTakesEffect ==
    [][(last'.op = "__setattr__" /\ last'.outcome = "returned")
        => PyEq(Effective(attribute_data', changed_attribute_data',
                          last'.attribute_name),
                Formatted(last'))]_vars

\* the handlers of the declared triggers that name the attribute and whose
\* names are all processed
Due(attribute_name, processed) ==
    {TriggerDeclarations[i].handler : i \in
        {j \in 1..Len(TriggerDeclarations) :
            /\ attribute_name \in TriggerDeclarations[j].attribute_names
            /\ TriggerDeclarations[j].attribute_names \subseteq processed}}

\* C15 as claimed: a write that newly marks its field processed invokes,
\* once each and with the field's prior effective value and its new
\* formatted value, the handlers of exactly the declared triggers that name
\* the field and whose names are all processed
C15_EveryDeclaredTrigger ==
    [][(/\ last'.op = "__setattr__"
        /\ last'.outcome = "returned"
        /\ Differs(attribute_data, changed_attribute_data,
                   last'.attribute_name, last'.attribute_value))
        => /\ {fired'[i].handler : i \in 1..Len(fired')}
                = Due(last'.attribute_name, processed_attributes')
           /\ \A i \in 1..Len(fired') :
                /\ Fires(fired'[i].handler, fired') = 1
                /\ fired'[i].old_attribute_value
                    = Effective(attribute_data, changed_attribute_data,
                                last'.attribute_name)
                /\ fired'[i].new_attribute_value = Formatted(last')]_vars

\* the names of the key fields present in the attributes of a persist call
KeysPresent(p, attributes) == DOMAIN attributes \cap p.key_attribute_names

\* whether the statement sets the columns of all the non-key attributes and,
\* an UPDATE, filters by equality on the columns of all the key attributes
\* present
WholeStatement(p, attributes, statement) ==
    /\ DOMAIN statement.set = DOMAIN attributes \ p.key_attribute_names
    /\ \A n \in DOMAIN statement.set :
            statement.set[n] = ColumnValue(attributes[n])
    /\ DOMAIN statement.where
        = IF statement.verb = "UPDATE" THEN KeysPresent(p, attributes) ELSE {}
    /\ \A n \in DOMAIN statement.where :
            statement.where[n] = ColumnValue(attributes[n])

\* C12 as claimed: a persist call on a SQLPersistor issues an UPDATE if
\* every key field present has a non-falsy value and an INSERT otherwise,
\* and the statement names all the non-key columns and, an UPDATE, all the
\* key columns
C12_UpdateWhenKeysTruthy ==
    [][(persistor_call'.made /\ persistor.kind = "sqlite") =>
        LET attributes == persistor_call'.attributes
            statement == persistor_call'.statement
        IN  /\ statement.verb =
                IF \A n \in KeysPresent(persistor, attributes) :
                        PyTruthy(attributes[n])
                THEN "UPDATE" ELSE "INSERT"
            /\ WholeStatement(persistor, attributes, statement)]_vars

\* C12: a persist call on a SQLPersistor issues an UPDATE if at least one
\* key field is present and every key field present has a non-falsy value,
\* and an INSERT otherwise; the statement names all the non-key columns
\* and, an UPDATE, all the key columns
C12_UpdateWhenKeyedAndTruthy ==
    [][(persistor_call'.made /\ persistor.kind = "sqlite") =>
        LET attributes == persistor_call'.attributes
            statement == persistor_call'.statement
        IN  /\ statement.verb =
                IF /\ KeysPresent(persistor, attributes) # {}
                   /\ \A n \in KeysPresent(persistor, attributes) :
                        PyTruthy(attributes[n])
                THEN "UPDATE" ELSE "INSERT"
            /\ WholeStatement(persistor, attributes, statement)]_vars

\* C12 witness: a persist call whose attributes hold no key field has
\* issued an INSERT of the three columns
C12_Witness ==
    /\ persistor_call.made
    /\ persistor.kind = "sqlite"
    /\ KeysPresent(persistor, persistor_call.attributes) = {}
    /\ persistor_call.statement.verb = "INSERT"
    /\ DOMAIN persistor_call.statement.set = {"id", "name", "tags"}

\* C13 as claimed: with a SQLitePersistor keyed by the declared field id, a
\* persist that returns True has issued an INSERT when the key was unset
\* and an UPDATE filtered by the key when it was set, and leaves in the key
\* field the row identifier the INSERT returned, or the key the UPDATE was
\* filtered by
C13_KeyKeepsIdentifier ==
    [][(/\ last'.op = "persist"
        /\ last'.outcome = "True"
        /\ persistor = [kind |-> "sqlite", key_attribute_names |-> {"id"}])
        => LET attributes == persistor_call'.attributes
               statement == persistor_call'.statement
           IN  IF PyTruthy(attributes["id"])
               THEN /\ statement.verb = "UPDATE"
                    /\ statement.where
                        = [n \in {"id"} |-> ColumnValue(attributes["id"])]
                    /\ attribute_data'["id"] = attributes["id"]
               ELSE /\ statement.verb = "INSERT"
                    /\ attribute_data'["id"] = persistor_call'.result["id"]
                    /\ PyTruthy(attribute_data'["id"])]_vars

(***************************************************************************)
(* Validator.uuid, applied to values.                                      *)
(***************************************************************************)
\* the characters of the class [a-zA-Z0-9] of VALID_UUID_FORMAT
FormatChars ==
    {"0", "1", "2", "3", "4", "5", "6", "7", "8", "9", "a", "b", "c",
    "d", "e", "f", "g", "h", "i", "j", "k", "l", "m", "n", "o", "p",
    "q", "r", "s", "t", "u", "v", "w", "x", "y", "z", "A", "B", "C",
    "D", "E", "F", "G", "H", "I", "J", "K", "L", "M", "N", "O", "P",
    "Q", "R", "S", "T", "U", "V", "W", "X", "Y", "Z"}

\* the positions of the hyphens and the length of VALID_UUID_FORMAT
HyphenPositions == {9, 14, 19, 24}

FormatLength == 36

\* re.match(VALID_UUID_FORMAT, s): the match found at the start of s, None
\* when there is none.  The pattern has one length, so the match is the
\* first FormatLength characters
ReMatch(s) ==
    IF /\ Len(s) >= FormatLength
       /\ \A i \in 1..FormatLength :
            IF i \in HyphenPositions THEN s[i] = "-"
            ELSE s[i] \in FormatChars
    THEN PyStr(SubSeq(s, 1, FormatLength))
    ELSE None

\* Validator.uuid: False for a value that is not a string, else
\* match and match.group() == value
ValidatorUuid(value) ==
    IF value.k # "str" THEN PyBool(FALSE)
    ELSE IF ReMatch(value.s) = None THEN None
    ELSE PyBool(ReMatch(value.s) = value)

\* a UUID, and the characters put in place of one of its characters, before
\* it and after it
Uuid ==
    <<"5", "5", "0", "e", "8", "4", "0", "0", "-", "e", "2", "9", "b",
    "-", "4", "1", "d", "4", "-", "a", "7", "1", "6", "-", "4", "4",
    "6", "6", "5", "5", "4", "4", "0", "0", "0", "0">>

OtherChars == {"0", "F", "f", "g", "Z", "-", "_"}

\* the values validated: the UUID; the UUID with one character replaced, one
\* character dropped, one character put before or after it; another string;
\* values that are not strings
UuidValues ==
    {PyStr(Uuid), PyStr(<<"n", "o", "t", "-", "a", "-", "u", "u", "i", "d">>),
     PyStr(<<>>), None, PyInt(0), PyList(<<PyStr(Uuid)>>)}
        \cup {PyStr([Uuid EXCEPT ![i] = c]) :
                i \in 1..FormatLength, c \in OtherChars}
        \cup {PyStr(SubSeq(Uuid, 1, i - 1) \o SubSeq(Uuid, i + 1, FormatLength)) :
                i \in 1..FormatLength}
        \cup {PyStr(<<c>> \o Uuid) : c \in OtherChars}
        \cup {PyStr(Uuid \o <<c>>) : c \in OtherChars}

\* Validator.uuid(value)
ValidateUuid(value) ==
    /\ last' = Call("Validator.uuid", "-", value, EmptyDict,
                    CASE ValidatorUuid(value) = None -> "None"
                      [] ValidatorUuid(value) = PyBool(TRUE) -> "True"
                      [] OTHER -> "False")
    /\ UNCHANGED <<initialized, persistor, attribute_data,
                   changed_attribute_data, processed_attributes, fired,
                   persistor_call, differed>>
    /\ UNCHANGED others

NextUuid == \E value \in UuidValues : ValidateUuid(value)

SpecUuid == Init /\ [][NextUuid]_vars

\* the hexadecimal digits, of either case
HexChars ==
    {"0", "1", "2", "3", "4", "5", "6", "7", "8", "9", "a", "b", "c",
    "d", "e", "f", "A", "B", "C", "D", "E", "F"}

\* whether a value is a string that is, in full, 8-4-4-4-12 hexadecimal
\* digits separated by hyphens
CanonicalUuid(value) ==
    /\ value.k = "str"
    /\ Len(value.s) = 36
    /\ \A i \in 1..36 :
            IF i \in {9, 14, 19, 24} THEN value.s[i] = "-"
            ELSE value.s[i] \in HexChars

\* C14 as claimed: Validator.uuid is truthy exactly for the strings that
\* are, in full, 8-4-4-4-12 hexadecimal digits separated by hyphens
C14_AcceptsCanonicalOnly ==
    last.op = "Validator.uuid" =>
        (last.outcome = "True" <=> CanonicalUuid(last.attribute_value))

(***************************************************************************)
(* One SQLitePersistor, called by any number of entities.                  *)
(***************************************************************************)
\* the persistor: SQLitePersistor(path, table_name, 'id')
Adapter == [kind |-> "sqlite", key_attribute_names |-> {"id"}]

\* the attributes the entities hand to persist
AdapterAttributes ==
    {attributes \in
        [{"id", "name", "tags"} ->
            {None, PyInt(0), PyInt(1), PyInt(2), Abc, PyStr(<<"0">>),
             PyList(<<>>), PyList(<<PyInt(1)>>)}] :
        /\ attributes["id"] \in {None, PyInt(0), PyInt(1), PyInt(2)}
        /\ attributes["name"] \in {None, Abc, PyStr(<<"0">>)}
        /\ attributes["tags"] \in {None, PyList(<<>>), PyList(<<PyInt(1)>>)}}

\* Connection, calling _connect on every read
ConnectionAlwaysNew(current, returned, connected) ==
    IF connected
    THEN [connection |-> returned + 1, connect_calls |-> 1, raised |-> FALSE]
    ELSE [connection |-> current, connect_calls |-> 1, raised |-> TRUE]

\* the property SQLPersistor.connection, read once: the _connection it
\* leaves, the calls of _connect it makes and whether it raises.  current
\* is _connection before (0: not set), returned the number of connections
\* _connect has returned so far, connected whether _connect returns now
Connection(current, returned, connected) ==
    IF current # 0
    THEN [connection |-> current, connect_calls |-> 0, raised |-> FALSE]
    ELSE IF connected
    THEN [connection |-> returned + 1, connect_calls |-> 1, raised |-> FALSE]
    ELSE [connection |-> 0, connect_calls |-> 1, raised |-> TRUE]

\* Adapter.persist(attributes).  _insert and _update read self.connection
\* once and execute the statement on it; what _connect raises leaves persist
AdapterPersist(attributes, connected) ==
    /\ connects < MaxConnects
    /\ LET c == Connection(connection, connects, connected)
       IN  /\ connection' = c.connection
           /\ connects' = IF c.connect_calls = 1 /\ ~c.raised
                          THEN connects + 1 ELSE connects
           /\ IF c.raised
              THEN /\ persistor_call' =
                        [made |-> TRUE, attributes |-> attributes,
                         statement |-> NoSql, executed_on |-> 0,
                         connect_calls |-> c.connect_calls,
                         result |-> None]
                   /\ last' = Call("SQLPersistor.persist", "-", None,
                                   attributes, "raised")
              ELSE \E lastrowid \in LastRowIds(Statement(Adapter, attributes)) :
                   /\ persistor_call' =
                        [made |-> TRUE, attributes |-> attributes,
                         statement |-> Sql(Adapter, attributes),
                         executed_on |-> c.connection,
                         connect_calls |-> c.connect_calls,
                         result |-> MapResult(Adapter, lastrowid)]
                   /\ last' = Call("SQLPersistor.persist", "-", None,
                                   attributes, "returned")
    /\ UNCHANGED <<initialized, persistor, attribute_data,
                   changed_attribute_data, processed_attributes, fired,
                   differed, instance_dict, class_dict>>

NextAdapter ==
    \E attributes \in AdapterAttributes, connected \in BOOLEAN :
        AdapterPersist(attributes, connected)

SpecAdapter == Init /\ [][NextAdapter]_vars

\* C17: no connection is open before the first persist call; _connect
\* returns at most once; a persist call calls _connect at most once, and not
\* at all once a connection is open; a call in which _connect raises raises,
\* executes nothing and leaves no connection; every other call executes its
\* statement on the one connection
C17_OneLazyConnection ==
    /\ [](last.op = "none" => (connection = 0 /\ connects = 0))
    /\ [](connects <= 1)
    /\ [][last'.op = "SQLPersistor.persist" =>
            /\ persistor_call'.connect_calls
                = IF connection = 0 THEN 1 ELSE 0
            /\ last'.outcome = "raised" =>
                /\ connection = 0
                /\ connection' = 0
                /\ connects' = connects
                /\ persistor_call'.executed_on = 0
                /\ persistor_call'.statement = NoSql
            /\ last'.outcome = "returned" =>
                /\ persistor_call'.statement.verb \in {"INSERT", "UPDATE"}
                /\ persistor_call'.executed_on = 1
                /\ connection' = 1
                /\ connects' = 1]_vars

\* C17 witness: a persist call has executed an UPDATE on the connection
\* that an earlier call opened
C17_Witness ==
    /\ last.op = "SQLPersistor.persist"
    /\ persistor_call.connect_calls = 0
    /\ persistor_call.executed_on = 1
    /\ persistor_call.statement.verb = "UPDATE"
    /\ connection = 1

(***************************************************************************)
(* The metadata cached on the classes.                                     *)
(***************************************************************************)
\* the base classes of a class, the class first: its method resolution
\* order, without object
Mro(cls) ==
    CASE cls = "Model" -> <<"Model">>
      [] cls = "Entity" -> <<"Entity", "Model">>
      [] cls = "Derived" -> <<"Derived", "Entity", "Model">>
      [] cls = "Other" -> <<"Other", "Model">>

\* the Attribute declarations of a class body, by name: Derived declares
\* code and Other title, Model none
ClassAttributes(cls) ==
    CASE cls = "Entity" -> DOMAIN AttributeMetadata
      [] cls = "Derived" -> {"code"}
      [] cls = "Other" -> {"title"}
      [] OTHER -> {}

\* the Trigger declarations of a class body: Derived declares on_code on
\* {'code'}, Model and Other none
ClassTriggers(cls) ==
    CASE cls = "Entity" -> TriggerDeclarations
      [] cls = "Derived" ->
            <<[attribute_names |-> {"code"}, handler |-> "on_code"]>>
      [] OTHER -> <<>>

\* the metadata built from cls.__dict__: the Attribute instances by name,
\* the Trigger instances by attribute_names
BuildMetadata(cls, name) ==
    IF name = "_attribute_metadata" THEN ClassAttributes(cls)
    ELSE TriggerDict(ClassTriggers(cls))

\* the classes of the order that hold the name in their own __dict__
Holders(dicts, cls, name) ==
    {i \in 1..Len(Mro(cls)) : name \in DOMAIN dicts[Mro(cls)[i]]}

\* hasattr(cls, name): some class of the order holds the name
HasAttr(dicts, cls, name) == Holders(dicts, cls, name) # {}

\* getattr(cls, name): the value held by the first class of the order that
\* holds the name
GetAttr(dicts, cls, name) ==
    LET first == CHOOSE i \in Holders(dicts, cls, name) :
                    \A j \in Holders(dicts, cls, name) : i <= j
    IN  dicts[Mro(cls)[first]][name]

\* the body of the properties attribute_metadata and trigger_metadata, up
\* to the return: the class __dict__s it leaves
CacheMetadata(dicts, cls, name) ==
    IF HasAttr(dicts, cls, name) THEN dicts
    ELSE [dicts EXCEPT ![cls] = DictPut(@, name, BuildMetadata(cls, name))]

\* an instance of cls reads attribute_metadata (as __init__ does) or
\* trigger_metadata (as a write that is stored or tracked does)
ReadMetadata(cls, name) ==
    /\ class_dict' = CacheMetadata(class_dict, cls, name)
    /\ last' = Call(name, cls, None, EmptyDict, "returned")
    /\ UNCHANGED <<initialized, persistor, attribute_data,
                   changed_attribute_data, processed_attributes, fired,
                   persistor_call, differed, instance_dict, connection,
                   connects>>

NextClasses ==
    \E cls \in Classes, name \in {"_attribute_metadata", "_trigger_metadata"} :
        ReadMetadata(cls, name)

SpecClasses == Init /\ [][NextClasses]_vars

\* C19 as claimed: the metadata an instance reads is the one built from the
\* declarations of its own class, whatever instances of its class and of the
\* other classes have read theirs before
C19_MetadataOfOwnClass ==
    last.op \in {"_attribute_metadata", "_trigger_metadata"} =>
        GetAttr(class_dict, last.attribute_name, last.op)
            = BuildMetadata(last.attribute_name, last.op)

(***************************************************************************)
(* Names the Model type does not declare.                                  *)
(***************************************************************************)
PyDict(d) == [k |-> "dict", d |-> d]

\* the properties of Model that have no setter
ReadOnlyProperties ==
    {"attribute_metadata", "changed_attribute_data", "merged_attribute_data",
     "processed_attributes", "trigger_metadata"}

\* the attributes Model keeps on its instances itself: its properties and
\* the attributes behind them
ModelAttributes ==
    ReadOnlyProperties
        \cup {"attribute_data", "initialized", "persistor",
              "_attribute_data", "_changed_attribute_data", "_initialized",
              "_persistor", "_processed_attributes"}

\* the undeclared names written: a name of the user's, a property of Model
\* with a setter and one without
UndeclaredNames == {"nickname", "attribute_data", "processed_attributes"}

\* the values written to them
UndeclaredValues(attribute_name) ==
    IF attribute_name = "attribute_data"
    THEN {PyDict(EmptyDict),
          PyDict([n \in {"id", "name", "tags"} |->
                    CASE n = "id" -> PyInt(1)
                      [] n = "name" -> Abc
                      [] n = "tags" -> PyList(<<PyInt(1)>>)])}
    ELSE {Abc, PyInt(0)}

\* the mappings a Model is constructed from, with and without a key that is
\* no declared name
SeedsWithUnknown ==
    Seeds \cup {DictPut(attributes, "nickname", Abc) : attributes \in Seeds}

\* ObjectSetAttr, storing a string made of the value
ObjectSetAttrFormatted(o, attribute_name, attribute_value) ==
    IF attribute_name \in
        {"attribute_metadata", "changed_attribute_data",
         "merged_attribute_data", "processed_attributes", "trigger_metadata"}
    THEN [o EXCEPT !.raised = TRUE]
    ELSE IF attribute_name = "attribute_data"
    THEN [o EXCEPT !.attribute_data = attribute_value.d]
    ELSE [o EXCEPT !.instance_dict =
            [x \in DOMAIN o.instance_dict \cup {attribute_name} |->
                IF x = attribute_name
                THEN [k |-> "str",
                      s |-> IF attribute_value.k = "str" THEN attribute_value.s
                            ELSE <<"0">>]
                ELSE o.instance_dict[x]]]

\* super(Model, self).__setattr__(attribute_name, attribute_value), the
\* branch of Model.__setattr__ for a name attribute_metadata does not hold:
\* a property without a setter raises AttributeError, the setter of
\* attribute_data replaces the dictionary, any other name is stored in the
\* instance's __dict__
ObjectSetAttr(o, attribute_name, attribute_value) ==
    IF attribute_name \in ReadOnlyProperties
    THEN [o EXCEPT !.raised = TRUE]
    ELSE IF attribute_name = "attribute_data"
    THEN [o EXCEPT !.attribute_data = attribute_value.d]
    ELSE [o EXCEPT !.instance_dict =
            DictPut(@, attribute_name, attribute_value)]

\* a write model.attribute_name = attribute_value, after construction, to
\* a name that is not declared
WriteUndeclared(attribute_name, attribute_value) ==
    /\ initialized
    /\ attribute_name \notin DOMAIN AttributeMetadata
    /\ LET o == ObjectSetAttr([attribute_data |-> attribute_data,
                               instance_dict |-> instance_dict,
                               raised |-> FALSE],
                              attribute_name, attribute_value)
       IN  /\ attribute_data' = o.attribute_data
           /\ instance_dict' = o.instance_dict
           /\ last' = Call("__setattr__", attribute_name, attribute_value,
                           EmptyDict,
                           IF o.raised THEN "AttributeError" ELSE "returned")
    /\ fired' = <<>>
    /\ persistor_call' = NoCall
    /\ UNCHANGED <<initialized, persistor, changed_attribute_data,
                   processed_attributes, differed, connection, connects,
                   class_dict>>

NextUndeclared ==
    \/ \E attributes \in SeedsWithUnknown : Construct(NoPersistor, attributes)
    \/ \E attribute_name \in DOMAIN AttributeMetadata :
            \E attribute_value \in Values(attribute_name) :
                Write(attribute_name, attribute_value)
    \/ \E attribute_name \in UndeclaredNames :
            \E attribute_value \in UndeclaredValues(attribute_name) :
                WriteUndeclared(attribute_name, attribute_value)
    \/ Validate

SpecUndeclared == Init /\ [][NextUndeclared]_vars

\* the mapping of a construction, without the keys that are not declared
DeclaredOnly(attributes) ==
    [n \in DOMAIN attributes \cap DOMAIN AttributeMetadata |-> attributes[n]]

\* whether a construction has left what the construction from the declared
\* keys alone leaves, and nothing under the other keys
IgnoresUnknown(call, data, changed, processed, invocations, dict) ==
    LET m == InitLoop([attribute_data |-> DefaultAttributeData,
                       changed_attribute_data |-> EmptyDict,
                       processed_attributes |-> {},
                       initialized |-> FALSE,
                       fired |-> <<>>,
                       raised |-> FALSE],
                      AttributeNames, DeclaredOnly(call.attributes))
    IN  /\ call.outcome = IF m.raised THEN "ValueError" ELSE "returned"
        /\ invocations = m.fired
        /\ dict = EmptyDict
        /\ ~m.raised =>
            /\ data = m.attribute_data
            /\ changed = m.changed_attribute_data
            /\ processed = m.processed_attributes

\* C11 as claimed: a write to a name that is not declared returns, leaves
\* attribute_data, changed_attribute_data and processed_attributes as they
\* were, invokes no handler and stores the value as written; a construction
\* applies the declared keys of its mapping and ignores the others
C11_UndeclaredPassesThrough ==
    [][/\ (/\ last'.op = "__setattr__"
           /\ last'.attribute_name \notin DOMAIN AttributeMetadata)
            => /\ last'.outcome = "returned"
               /\ UNCHANGED <<attribute_data, changed_attribute_data,
                              processed_attributes>>
               /\ fired' = <<>>
       /\ last'.op = "__init__"
            => IgnoresUnknown(last', attribute_data', changed_attribute_data',
                              processed_attributes', fired', instance_dict')]_vars

\* C11: a write to a name that is neither declared nor an attribute that
\* Model keeps on its instances itself returns, leaves attribute_data,
\* changed_attribute_data and processed_attributes as they were, invokes no
\* handler and stores the value as written; a construction applies the
\* declared keys of its mapping and ignores the others
C11_OtherNamesPassThrough ==
    [][/\ (/\ last'.op = "__setattr__"
           /\ last'.attribute_name
                \notin DOMAIN AttributeMetadata \cup ModelAttributes)
            => /\ last'.outcome = "returned"
               /\ UNCHANGED <<attribute_data, changed_attribute_data,
                              processed_attributes>>
               /\ fired' = <<>>
               /\ instance_dict'
                    = DictPut(instance_dict, last'.attribute_name,
                              last'.attribute_value)
       /\ last'.op = "__init__"
            => IgnoresUnknown(last', attribute_data', changed_attribute_data',
                              processed_attributes', fired', instance_dict')]_vars

\* C11 witness: an integer was written to a name that is not declared and
\* is stored as written, while a change of a declared field is pending
C11_Witness ==
    /\ last = Call("__setattr__", "nickname", PyInt(0), EmptyDict, "returned")
    /\ instance_dict = [n \in {"nickname"} |-> PyInt(0)]
    /\ DOMAIN changed_attribute_data # {}
    /\ processed_attributes # {}
====
